---- MODULE Spec2Model ----
(***************************************************************************)
(* A model of main.py: the volume-history store kept in state.json         *)
(* (load_state / update_volume_history / get_volume_ma), the calendar      *)
(* helpers, the derived arbitrage statistics and the risk classification   *)
(* done by main().                                                         *)
(*                                                                         *)
(* Conventions.                                                            *)
(*   - A Python Optional is a sequence: None is <<>>, a value x is <<x>>.  *)
(*   - A datetime.date is a record [year, month, day]; date.isoformat()    *)
(*     is the tuple <<year, month, day>>, compared as the zero-padded      *)
(*     string "YYYY-MM-DD" compares (field by field, left to right).       *)
(*   - Floats are exact rationals kept as integers: a share count is an    *)
(*     integer, a percentage is held in tenths of a percent, an average is *)
(*     the pair [sum, n].  Float rounding is not modelled.                 *)
(***************************************************************************)
EXTENDS Integers, Sequences, FiniteSets, TLC

VARIABLES
    disk,       \* the "history" list of state.json
    pc,         \* "idle": no process is running; "done": main() has returned
    run,        \* what the last run of main() read, computed and printed
    history,    \* state["history"] of a store driven call by call
    call,       \* the last update_volume_history call made on history
    calc        \* the last call of a pure helper: its arguments and its result

vars == <<disk, pc, run, history, call, calc>>

None == <<>>
Some(x) == <<x>>

Max(a, b) == IF a >= b THEN a ELSE b
Abs(a) == IF a >= 0 THEN a ELSE -a

(***************************************************************************)
(* Bounds of the model.                                                    *)
(***************************************************************************)
\* The retention cap: 1400 in main.py (line 32).  The model keeps the cap
\* small so that a store driven from empty reaches and exceeds it.
STATE_MAX_RECORDS == 4
\* The moving-average window: 20 in main.py (line 44), scaled with the cap
\* (the code's relation VOL_MA_DAYS < STATE_MAX_RECORDS is kept).
VOL_MA_DAYS == 3
\* How many consecutive calendar dates the store is driven with.
NumDates == 6

(***************************************************************************)
(* Program constants.                                                      *)
(***************************************************************************)
SQ_NEAR_DAYS == 5
MAJOR_SQ_MONTHS == {3, 6, 9, 12}
ARB_DELTA_SHORT == 3
ARB_DELTA_MAIN == 5
ARB_DELTA_LONG == 25
ARB_PCTL_YEAR_POINTS == 245
ARB_PCTL_HALF_POINTS == 126
\* Ratios are kept as integers: per mille for the margins and floors,
\* per cent for the percentile and the thin-volume ratio, tenths of a per
\* cent for the price moves.
ARB_MARGIN_5_RATIO == 5
ARB_MARGIN_25_RATIO == 10
ARB_FLOOR_5_MED_RATIO == 1
ARB_FLOOR_25_MED_RATIO == 2
ARB_HIGH_PCTL == 80
VOL_RATIO_THIN == 85
P_MOVE_TH == 10
P_SPIKE_TH == 20
EMERGENCY_FIXED_TH == 30
BASIS_SHRINK_WINDOW == 5

(***************************************************************************)
(* datetime.date, as main.py uses it.                                      *)
(***************************************************************************)
IsLeap(y) == (y % 4 = 0) /\ ((y % 100 # 0) \/ (y % 400 = 0))

DaysInMonth(y, m) ==
    IF m = 2 THEN (IF IsLeap(y) THEN 29 ELSE 28)
    ELSE IF m \in {4, 6, 9, 11} THEN 30 ELSE 31

DaysBeforeYear(y) ==
    (y - 1) * 365 + ((y - 1) \div 4) - ((y - 1) \div 100) + ((y - 1) \div 400)

RECURSIVE DaysBeforeMonth(_, _)
DaysBeforeMonth(y, m) ==
    IF m = 1 THEN 0 ELSE DaysBeforeMonth(y, m - 1) + DaysInMonth(y, m - 1)

\* date(year, month, day)
Date(y, m, d) == [year |-> y, month |-> m, day |-> d]

\* date.toordinal(): 0001-01-01 is day 1
toordinal(d) == DaysBeforeYear(d.year) + DaysBeforeMonth(d.year, d.month) + d.day

\* date.fromordinal()
fromordinal(o) ==
    LET y == CHOOSE yy \in (o \div 366)..((o \div 365) + 1) :
                 DaysBeforeYear(yy) < o /\ o <= DaysBeforeYear(yy + 1)
        m == CHOOSE mm \in 1..12 :
                 /\ DaysBeforeYear(y) + DaysBeforeMonth(y, mm) < o
                 /\ o <= DaysBeforeYear(y) + DaysBeforeMonth(y, mm) + DaysInMonth(y, mm)
    IN Date(y, m, o - DaysBeforeYear(y) - DaysBeforeMonth(y, m))

\* date + timedelta(days=n)
date_add(d, n) == fromordinal(toordinal(d) + n)

\* date.weekday(): Monday is 0, Sunday is 6
weekday(d) == (toordinal(d) + 6) % 7

\* date.isoformat()
isoformat(d) == <<d.year, d.month, d.day>>

\* "YYYY-MM-DD" < "YYYY-MM-DD" on strings
IsoLess(a, b) ==
    \/ a[1] < b[1]
    \/ a[1] = b[1] /\ a[2] < b[2]
    \/ a[1] = b[1] /\ a[2] = b[2] /\ a[3] < b[3]

(***************************************************************************)
(* The history store.                                                      *)
(* A record of the list is a dict; the model keeps its "date" and          *)
(* "prime_volume" keys and one more key, "arb_net", standing for every key *)
(* update_volume_history never names (None: the key is absent).            *)
(***************************************************************************)
Rec(ds, vol, net) == [date |-> ds, prime_volume |-> vol, arb_net |-> net]

\* list.sort(key=lambda x: x.get("date", "")): a stable sort by date
SortByDate(s) ==
    LET n == Len(s)
        Before(i, j) == \/ IsoLess(s[i].date, s[j].date)
                        \/ s[i].date = s[j].date /\ i < j
        rank == [j \in 1..n |-> Cardinality({i \in 1..n : Before(i, j)}) + 1]
    IN [k \in 1..n |-> s[CHOOSE j \in 1..n : rank[j] = k]]

\* hist[-k:]
Tail_k(s, k) == IF Len(s) <= k THEN s ELSE SubSeq(s, Len(s) - k + 1, Len(s))

\* A plausible bug: the date is not looked up, every call appends.
update_volume_history_append(hist, dt, vol) ==
    LET ds == isoformat(dt)
        appended == SortByDate(Append(hist, Rec(ds, Some(vol), None)))
    IN [history |-> IF Len(appended) > STATE_MAX_RECORDS
                    THEN Tail_k(appended, STATE_MAX_RECORDS) ELSE appended,
        changed |-> TRUE]

\* A plausible bug: the record found is replaced wholesale.
update_volume_history_replace(hist, dt, vol) ==
    LET ds == isoformat(dt)
        found == {i \in 1..Len(hist) : hist[i].date = ds}
    IN IF found # {}
       THEN LET i == CHOOSE k \in found : \A l \in found : k <= l
            IN IF hist[i].prime_volume = Some(vol)
               THEN [history |-> hist, changed |-> FALSE]
               ELSE [history |-> [hist EXCEPT ![i] = Rec(ds, Some(vol), None)],
                     changed |-> TRUE]
       ELSE update_volume_history_append(hist, dt, vol)

\* A plausible bug: the trim keeps the head of the list (hist[:N]), the
\* oldest records.
update_volume_history_keep_oldest(hist, dt, vol) ==
    LET ds == isoformat(dt)
        found == {i \in 1..Len(hist) : hist[i].date = ds}
    IN IF found # {}
       THEN LET i == CHOOSE k \in found : \A l \in found : k <= l
            IN IF hist[i].prime_volume = Some(vol)
               THEN [history |-> hist, changed |-> FALSE]
               ELSE [history |-> [hist EXCEPT ![i].prime_volume = Some(vol)],
                     changed |-> TRUE]
       ELSE LET appended == SortByDate(Append(hist, Rec(ds, Some(vol), None)))
            IN [history |-> IF Len(appended) > STATE_MAX_RECORDS
                            THEN SubSeq(appended, 1, STATE_MAX_RECORDS)
                            ELSE appended,
                changed |-> TRUE]

\* update_volume_history(state, dt, vol): the new state["history"] and the
\* value returned.
update_volume_history(hist, dt, vol) ==
    LET ds == isoformat(dt)
        found == {i \in 1..Len(hist) : hist[i].date = ds}
    IN IF found # {}
       THEN LET i == CHOOSE k \in found : \A l \in found : k <= l
            IN IF hist[i].prime_volume = Some(vol)
               THEN [history |-> hist, changed |-> FALSE]
               ELSE [history |-> [hist EXCEPT ![i].prime_volume = Some(vol)],
                     changed |-> TRUE]
       ELSE LET appended == SortByDate(Append(hist, Rec(ds, Some(vol), None)))
            IN [history |-> IF Len(appended) > STATE_MAX_RECORDS
                            THEN Tail_k(appended, STATE_MAX_RECORDS)
                            ELSE appended,
                changed |-> TRUE]

RECURSIVE SumSeq(_)
SumSeq(s) == IF s = <<>> THEN 0 ELSE Head(s) + SumSeq(Tail(s))

\* get_volume_ma(state, window): None, or the mean as the pair [sum, n]
get_volume_ma(hist, window) ==
    LET qual == SelectSeq(hist, LAMBDA r : r.prime_volume # None /\ r.prime_volume[1] > 0)
        vols == [i \in 1..Len(qual) |-> qual[i].prime_volume[1]]
    IN IF Len(vols) < window THEN None
       ELSE LET recent == Tail_k(vols, window)
            IN Some([sum |-> SumSeq(recent), n |-> Len(recent)])

(***************************************************************************)
(* Calendar helpers of main.py.                                            *)
(***************************************************************************)
\* get_sq_date(year, month): the second Friday of the month
get_sq_date(year, month) ==
    LET first == Date(year, month, 1)
        days_to_first_fri == (4 - weekday(first) + 7) % 7
    IN date_add(first, days_to_first_fri + 7)

\* The settlement day get_days_to_sq selects for base_date.
sq_of(base_date) ==
    LET y == base_date.year
        m == base_date.month
        sq == get_sq_date(y, m)
    IN IF toordinal(base_date) > toordinal(sq)
       THEN (IF m = 12 THEN get_sq_date(y + 1, 1) ELSE get_sq_date(y, m + 1))
       ELSE sq

\* get_days_to_sq(base_date)
get_days_to_sq(base_date) == toordinal(sq_of(base_date)) - toordinal(base_date)

\* is_major_sq_month(d)
is_major_sq_month(d) == d.month \in MAJOR_SQ_MONTHS

\* A plausible bug: only Sunday counts as the weekend.
is_market_closed_sunday(d, holiday) ==
    IF weekday(d) >= 6 THEN TRUE
    ELSE IF (d.month = 12 /\ d.day = 31) \/ (d.month = 1 /\ d.day \in {1, 2, 3}) THEN TRUE
    ELSE IF holiday THEN TRUE
    ELSE FALSE

\* is_market_closed(d); holiday is the answer of jpholiday.is_holiday(d)
is_market_closed(d, holiday) ==
    IF weekday(d) >= 5 THEN TRUE
    ELSE IF (d.month = 12 /\ d.day = 31) \/ (d.month = 1 /\ d.day \in {1, 2, 3}) THEN TRUE
    ELSE IF holiday THEN TRUE
    ELSE FALSE

(***************************************************************************)
(* Arbitrage statistics.                                                   *)
(***************************************************************************)
\* calc_delta(net_hist, lag)
calc_delta(net_hist, lag) ==
    IF Len(net_hist) < lag + 1 THEN None
    ELSE Some(net_hist[Len(net_hist)] - net_hist[Len(net_hist) - lag])

\* _arb_window(net_hist)
_arb_window(net_hist) ==
    IF Len(net_hist) = 0 THEN None
    ELSE IF Len(net_hist) >= ARB_PCTL_YEAR_POINTS
         THEN Some(Tail_k(net_hist, ARB_PCTL_YEAR_POINTS))
    ELSE IF Len(net_hist) >= ARB_PCTL_HALF_POINTS
         THEN Some(Tail_k(net_hist, ARB_PCTL_HALF_POINTS))
    ELSE None

\* The k-th smallest element of a non-empty sequence of integers.
KthSmallest(s, k) ==
    CHOOSE v \in {s[i] : i \in 1..Len(s)} :
        /\ Cardinality({i \in 1..Len(s) : s[i] < v}) < k
        /\ k <= Cardinality({i \in 1..Len(s) : s[i] <= v})

\* pandas.Series.median(), doubled (the mean of the two middle elements of
\* an even-sized series is a half-integer)
Median2(s) ==
    LET n == Len(s)
    IN IF n % 2 = 1 THEN 2 * KthSmallest(s, (n + 1) \div 2)
       ELSE KthSmallest(s, n \div 2) + KthSmallest(s, (n \div 2) + 1)

\* compute_arb_stats(net_hist, arb_net_latest): None, or the dict.  The
\* margins are in units of 1/2000 share (per mille of a doubled median):
\* margin_5 = max(|latest| * 0.005, med_abs * 0.001), and so on.
compute_arb_stats(net_hist, arb_net_latest) ==
    LET w == _arb_window(net_hist)
    IN IF w = None THEN None
       ELSE LET s == w[1]
                n == Len(s)
                below == Cardinality({i \in 1..n : s[i] < arb_net_latest})
                med_abs2 == Median2([i \in 1..n |-> Abs(s[i])])
                base == Abs(arb_net_latest)
            IN Some([below |-> below,
                     window_n |-> n,
                     arb_high |-> (below * 100 >= ARB_HIGH_PCTL * n),
                     med_abs2 |-> med_abs2,
                     margin_5 |-> Max(2 * base * ARB_MARGIN_5_RATIO,
                                      med_abs2 * ARB_FLOOR_5_MED_RATIO),
                     margin_25 |-> Max(2 * base * ARB_MARGIN_25_RATIO,
                                       med_abs2 * ARB_FLOOR_25_MED_RATIO)])

\* A delta (in shares) in the unit of the margins.
InMarginUnits(d) == 2 * 1000 * d

(***************************************************************************)
(* compute_basis_stuck_nk, from the two series it fetches (None: the fetch *)
(* failed).  The series are taken as already aligned on their dates, so    *)
(* that the data frame built from them has one row per element.            *)
(***************************************************************************)
BasisNotOk ==
    [ok |-> FALSE, basis_today |-> 0, basis_5ago |-> 0, stuck |-> FALSE,
     basis_stress_down |-> FALSE]

compute_basis_stuck_nk(fut, spot) ==
    IF fut = None \/ spot = None THEN BasisNotOk
    ELSE LET f == fut[1]
             sp == spot[1]
             n == Len(f)
         IN IF n < BASIS_SHRINK_WINDOW + 1 THEN BasisNotOk
            ELSE LET basis_today == f[n] - sp[n]
                     basis_5ago == f[n - BASIS_SHRINK_WINDOW] - sp[n - BASIS_SHRINK_WINDOW]
                 IN [ok |-> TRUE,
                     basis_today |-> basis_today,
                     basis_5ago |-> basis_5ago,
                     stuck |-> (Abs(basis_today) >= Abs(basis_5ago)),
                     basis_stress_down |-> ((basis_today < 0) /\ (basis_today <= basis_5ago))]

(***************************************************************************)
(* main(): the steps of one evaluation.                                    *)
(***************************************************************************)
\* isinstance(prime_vol, (int, float)) and prime_vol and prime_vol > 0
vol_usable(prime_vol) == prime_vol # None /\ prime_vol[1] # 0 /\ prime_vol[1] > 0

\* A plausible bug: a missing moving average is not a reason.
first_gate_no_ma(arb_buy, arb_sell, d5, prime_vol, vol_ma, move_info, q99_move) ==
    \/ arb_buy = None \/ arb_sell = None
    \/ d5 = None
    \/ ~vol_usable(prime_vol)
    \/ ~move_info.ok
    \/ q99_move = None

\* insufficient_reasons is not empty
first_gate(arb_buy, arb_sell, d5, prime_vol, vol_ma, move_info, q99_move) ==
    \/ arb_buy = None \/ arb_sell = None
    \/ d5 = None
    \/ ~vol_usable(prime_vol)
    \/ vol_ma = None
    \/ ~move_info.ok
    \/ q99_move = None

\* arb_stats is None or d25 is None
second_gate(arb_stats, d25) == arb_stats = None \/ d25 = None

\* arb_stuck_weak
arb_stuck_weak(d5, margin_5) == InMarginUnits(d5) >= -margin_5

\* arb_stuck_strong
arb_stuck_strong(d5, d25, margin_5, margin_25, arb_high) ==
    (InMarginUnits(d5) >= -margin_5) /\ (InMarginUnits(d25) >= -margin_25) /\ arb_high

\* major_sq_near
major_sq_near(report_dt) ==
    (get_days_to_sq(report_dt) <= SQ_NEAR_DAYS) /\ is_major_sq_month(report_dt)

\* liq_mismatch, with vol_ratio = prime_vol / vol_ma compared as a fraction
liq_mismatch(prime_vol, vol_ma, move_info) ==
    IF vol_ma # None /\ vol_usable(prime_vol) /\ move_info.ok
    THEN LET thin == prime_vol[1] * vol_ma[1].n * 100 <= VOL_RATIO_THIN * vol_ma[1].sum
             px_move_abs == Abs(move_info.pct)
         IN \/ thin /\ px_move_abs >= P_MOVE_TH
            \/ ~thin /\ px_move_abs >= P_SPIKE_TH
    ELSE FALSE

\* px_move_abs: None unless the liquidity block ran
px_move_abs_of(prime_vol, vol_ma, move_info) ==
    IF vol_ma # None /\ vol_usable(prime_vol) /\ move_info.ok
    THEN Some(Abs(move_info.pct)) ELSE None

\* emergency_move
emergency_move(px_move_abs, q99_move) ==
    LET em_th == Max(EMERGENCY_FIXED_TH, q99_move[1])
    IN px_move_abs # None /\ px_move_abs[1] >= em_th

\* A plausible bug: the shock disjunct asks for the strong condition too.
warning_rule_strong_only(weak, strong, liq, idx_high_topix, basis_stress_down, emergency) ==
    \/ strong /\ liq /\ (idx_high_topix \/ basis_stress_down)
    \/ strong /\ liq /\ emergency

\* warning, before the boost
warning_rule(weak, strong, liq, idx_high_topix, basis_stress_down, emergency) ==
    \/ strong /\ liq /\ (idx_high_topix \/ basis_stress_down)
    \/ weak /\ liq /\ emergency

\* caution, before the boost
caution_rule(warning, weak, strong, liq, sq_near, idx_high_topix, basis_stress_down, emergency) ==
    /\ ~warning
    /\ weak \/ strong
    /\ liq
    /\ sq_near \/ idx_high_topix \/ basis_stress_down \/ emergency

\* A plausible bug: the boost is left out.
level_of_no_boost(warning, caution, sq_near) ==
    [sq_boosted |-> FALSE,
     level |-> IF warning THEN "WARNING" ELSE IF caution THEN "CAUTION" ELSE "NORMAL"]

\* The boost and the level printed.
level_of(warning, caution, sq_near) ==
    LET sq_boosted == caution /\ sq_near
        w == IF sq_boosted THEN TRUE ELSE warning
        c == IF sq_boosted THEN FALSE ELSE caution
    IN [sq_boosted |-> sq_boosted,
        level |-> IF w THEN "WARNING" ELSE IF c THEN "CAUTION" ELSE "NORMAL"]

NoFlags ==
    [weak |-> FALSE, strong |-> FALSE, liq |-> FALSE, sq_near |-> FALSE,
     idx_high |-> FALSE, stress_down |-> FALSE, emergency |-> FALSE,
     warning |-> FALSE, caution |-> FALSE, sq_boosted |-> FALSE]

\* What main() does once the market is open and the sources are configured:
\* st is the history load_state returned, the rest is what the fetches
\* returned.  save_state is taken to succeed (a failed write is logged and
\* leaves state.json as it was).
evaluate(today, st, arb, volf, topix_pos, move_info, fut, spot, q99_move) ==
    LET basis_info == compute_basis_stuck_nk(fut, spot)
        report_dt == IF arb.date # None THEN arb.date[1]
                     ELSE IF volf.date # None THEN volf.date[1] ELSE today
        do_update == volf.date # None /\ vol_usable(volf.vol)
        upd == IF do_update THEN update_volume_history(st, volf.date[1], volf.vol[1])
               ELSE [history |-> st, changed |-> FALSE]
        state_updated == upd.changed
        d5 == calc_delta(arb.net_hist, ARB_DELTA_MAIN)
        vol_ma == get_volume_ma(upd.history, VOL_MA_DAYS)
        common == [report_dt |-> report_dt, state_updated |-> state_updated,
                   saved |-> state_updated,
                   memory |-> upd.history, vol_ma |-> vol_ma]
    IN IF first_gate(arb.buy, arb.sell, d5, volf.vol, vol_ma, move_info, q99_move)
       THEN common @@ [outcome |-> "INSUFFICIENT", flags |-> NoFlags]
       ELSE
       LET d25 == calc_delta(arb.net_hist, ARB_DELTA_LONG)
           arb_net_latest == arb.buy[1] - arb.sell[1]
           arb_stats == compute_arb_stats(arb.net_hist, arb_net_latest)
       IN IF second_gate(arb_stats, d25)
          THEN common @@ [outcome |-> "INSUFFICIENT", flags |-> NoFlags]
          ELSE
          LET weak == arb_stuck_weak(d5[1], arb_stats[1].margin_5)
              strong == arb_stuck_strong(d5[1], d25[1], arb_stats[1].margin_5,
                                         arb_stats[1].margin_25, arb_stats[1].arb_high)
              sq_near == major_sq_near(report_dt)
              liq == liq_mismatch(volf.vol, vol_ma, move_info)
              idx_high_topix == IF topix_pos.ok THEN topix_pos.idx_high_topix ELSE FALSE
              basis_stress_down == IF basis_info.ok THEN basis_info.basis_stress_down ELSE FALSE
              emergency == emergency_move(px_move_abs_of(volf.vol, vol_ma, move_info), q99_move)
              warning == warning_rule(weak, strong, liq, idx_high_topix, basis_stress_down, emergency)
              caution == caution_rule(warning, weak, strong, liq, sq_near, idx_high_topix,
                                      basis_stress_down, emergency)
              lv == level_of(warning, caution, sq_near)
          IN common @@
             [outcome |-> lv.level,
              flags |-> [weak |-> weak, strong |-> strong, liq |-> liq, sq_near |-> sq_near,
                         idx_high |-> idx_high_topix, stress_down |-> basis_stress_down,
                         emergency |-> emergency, warning |-> warning, caution |-> caution,
                         sq_boosted |-> lv.sq_boosted]]

(***************************************************************************)
(* The store driven call by call.                                          *)
(***************************************************************************)
FirstStoreDate == Date(2024, 2, 27)
StoreDates == {date_add(FirstStoreDate, k) : k \in 0..(NumDates - 1)}
StoreVolumes == {100, 200}

\* What load_state can hand over: an empty history (no file), or a history a
\* previous run wrote, whose records may carry keys of their own and may lack
\* a volume.
LoadedStores ==
    { <<>>,
      << Rec(isoformat(date_add(FirstStoreDate, 1)), Some(100), Some(7)),
         Rec(isoformat(date_add(FirstStoreDate, 2)), None, Some(-3)) >>,
      [k \in 1..STATE_MAX_RECORDS |->
         Rec(isoformat(date_add(FirstStoreDate, k)), Some(100), None)] }

NoCall == None

InitStore ==
    /\ history \in LoadedStores
    /\ call = NoCall
    /\ disk = <<>>
    /\ pc = "idle"
    /\ run = None
    /\ calc = None

\* One call update_volume_history(state, dt, vol).
Upsert ==
    \E dt \in StoreDates, vol \in StoreVolumes :
        LET r == update_volume_history(history, dt, vol)
        IN /\ history' = r.history
           /\ call' = Some([before |-> history, dt |-> dt, vol |-> vol,
                            changed |-> r.changed])
           /\ UNCHANGED <<disk, pc, run, calc>>

NextStore == Upsert

SpecStore == InitStore /\ [][NextStore]_vars

(***************************************************************************)
(* The runs of main() against state.json.                                  *)
(***************************************************************************)
\* date.today(): two trading days, a Saturday and a year-end day
FirstOpenDay == Date(2024, 3, 8)
TodayDates == {FirstOpenDay, Date(2024, 3, 11), Date(2024, 3, 9), Date(2024, 12, 31)}

\* A state.json earlier runs wrote: VOL_MA_DAYS days of volume 100.
SeedStore ==
    [k \in 1..VOL_MA_DAYS |->
        Rec(isoformat(date_add(FirstOpenDay, k - VOL_MA_DAYS - 1)), Some(100), None)]

\* A net_hist of n values (oldest first), all equal to lo but the newest
\* (last), the one 5 back (x5) and the one 25 back (x25).
MkHist(n, lo, x25, x5, last) ==
    [i \in 1..n |-> IF i = n THEN last
                    ELSE IF i = n - ARB_DELTA_MAIN THEN x5
                    ELSE IF i = n - ARB_DELTA_LONG THEN x25
                    ELSE lo]

ArbOf(d, buy, sell, hist) ==
    [date |-> Some(d), buy |-> Some(buy), sell |-> Some(sell), net_hist |-> hist]

\* The dates of the newest arbitrage row: three days before a minor
\* settlement day (9 February), the last day of the month before a major
\* one, three days before the major one (8 March), and after it.
ArbDates == {Date(2024, 2, 6), Date(2024, 2, 29), Date(2024, 3, 5), Date(2024, 3, 12)}

\* What fetch_arbitrage_data can return: nothing; a history too short for
\* the deltas or for the percentile window; a half-year window around the
\* two margins, under and over the latest net balance; a full-year window
\* with a zero net balance (the margins are then the floors).
ArbFetches ==
    {[date |-> None, buy |-> None, sell |-> None, net_hist |-> <<>>]}
    \cup {ArbOf(Date(2024, 3, 5), 1500, 500, MkHist(n, 1000, 1000, 1000, 1000)) :
            n \in {ARB_DELTA_SHORT, ARB_DELTA_LONG + 5}}
    \cup {ArbOf(Date(2024, 3, 5), 1500, 500, MkHist(ARB_PCTL_HALF_POINTS, lo, x25, x5, 1000)) :
            lo \in {900, 1100}, x25 \in {1010, 1011}, x5 \in {1005, 1006}}
    \cup {ArbOf(d, 1500, 500, MkHist(ARB_PCTL_HALF_POINTS, lo, 1010, 1005, 1000)) :
            d \in ArbDates, lo \in {900, 1100}}
    \cup {ArbOf(Date(2024, 3, 12), 500, 500, MkHist(ARB_PCTL_YEAR_POINTS, 1000, 0, 1, 0))}

\* What fetch_prime_volume can return on the day today.
VolFetches(today) ==
    {[date |-> None, vol |-> None]}
    \cup {[date |-> Some(today), vol |-> Some(v)] : v \in {0, 50, 200}}

\* What compute_topix_position can return.
TopixPositions ==
    {[ok |-> FALSE, idx_high_topix |-> FALSE],
     [ok |-> TRUE, idx_high_topix |-> TRUE]}

\* What compute_daily_move_pct can return (tenths of a per cent).
MoveInfos ==
    {[ok |-> FALSE, pct |-> 0]} \cup {[ok |-> TRUE, pct |-> p] : p \in {-10, 20, 30}}

\* The futures and spot series (None: the fetch failed).
BasisSeries ==
    {[fut |-> None, spot |-> None],
     [fut |-> Some(<<99, 100, 100, 100, 100, 98>>), spot |-> Some(<<100, 100, 100, 100, 100, 100>>)]}

\* What compute_move_abs_q99 can return (tenths of a per cent).
Q99Moves == {None, Some(25), Some(35)}

NoInputs ==
    [arb |-> [date |-> None, buy |-> None, sell |-> None, net_hist |-> <<>>],
     volf |-> [date |-> None, vol |-> None],
     topix_pos |-> [ok |-> FALSE, idx_high_topix |-> FALSE],
     move_info |-> [ok |-> FALSE, pct |-> 0],
     fut |-> None, spot |-> None, q99_move |-> None]

\* A run that stopped before load_state and the fetches.
Stopped(today, holiday, src_a, src_b, outcome) ==
    [today |-> today, holiday |-> holiday, src_a |-> src_a, src_b |-> src_b,
     loaded |-> FALSE, fetched |-> FALSE, before |-> disk, inputs |-> NoInputs,
     outcome |-> outcome, report_dt |-> today, state_updated |-> FALSE,
     saved |-> FALSE, memory |-> <<>>, vol_ma |-> None, flags |-> NoFlags]

Init ==
    /\ disk \in {<<>>, SeedStore}
    /\ pc = "idle"
    /\ run = None
    /\ history = <<>>
    /\ call = NoCall
    /\ calc = None

\* One run of main(), from start to return.
Main ==
    /\ pc = "idle"
    /\ pc' = "done"
    /\ UNCHANGED <<history, call, calc>>
    /\ \E today \in TodayDates, holiday \in BOOLEAN, src_a \in BOOLEAN, src_b \in BOOLEAN :
         IF is_market_closed(today, holiday)
         THEN /\ run' = Some(Stopped(today, holiday, src_a, src_b, "SKIPPED"))
              /\ disk' = disk
         ELSE IF ~src_a \/ ~src_b
         THEN /\ run' = Some(Stopped(today, holiday, src_a, src_b, "UNCONFIGURED"))
              /\ disk' = disk
         ELSE \E arb \in ArbFetches, volf \in VolFetches(today), topix_pos \in TopixPositions,
                 move_info \in MoveInfos, basis \in BasisSeries, q99_move \in Q99Moves :
                LET e == evaluate(today, disk, arb, volf, topix_pos, move_info,
                                  basis.fut, basis.spot, q99_move)
                IN /\ run' = Some(
                        [today |-> today, holiday |-> holiday, src_a |-> src_a, src_b |-> src_b,
                         loaded |-> TRUE, fetched |-> TRUE, before |-> disk,
                         inputs |-> [arb |-> arb, volf |-> volf, topix_pos |-> topix_pos,
                                     move_info |-> move_info, fut |-> basis.fut,
                                     spot |-> basis.spot, q99_move |-> q99_move]] @@ e)
                   /\ disk' = IF e.saved THEN e.memory ELSE disk

\* The process ends; the next invocation starts from state.json alone.
Exit ==
    /\ pc = "done"
    /\ pc' = "idle"
    /\ run' = None
    /\ UNCHANGED <<disk, history, call, calc>>

Next == Main \/ Exit

Spec == Init /\ [][Next]_vars

(***************************************************************************)
(* Properties of the runs of main() (specification Spec).                  *)
(***************************************************************************)
LastRun == run[1]

\* The day is a closed day: Saturday or Sunday, 12/31 to 1/3, or a holiday.
ClosedDay(d, holiday) ==
    \/ weekday(d) \in {5, 6}
    \/ d.month = 12 /\ d.day = 31
    \/ d.month = 1 /\ d.day \in 1..3
    \/ holiday

\* A risk level was assigned.
Sufficient(r) == r.outcome \in {"NORMAL", "CAUTION", "WARNING"}

\* One of the required inputs of the run is unavailable.
ArbUnavailable(r) == r.inputs.arb.buy = None \/ r.inputs.arb.sell = None
Delta5Unavailable(r) == calc_delta(r.inputs.arb.net_hist, ARB_DELTA_MAIN) = None
Delta25Unavailable(r) == calc_delta(r.inputs.arb.net_hist, ARB_DELTA_LONG) = None
ArbStatsUnavailable(r) == _arb_window(r.inputs.arb.net_hist) = None
TurnoverUnavailable(r) == r.inputs.volf.vol = None
AverageUnavailable(r) == r.vol_ma = None
MoveUnavailable(r) == ~r.inputs.move_info.ok
ThresholdUnavailable(r) == r.inputs.q99_move = None

SomeInputUnavailable(r) ==
    \/ ArbUnavailable(r) \/ Delta5Unavailable(r) \/ Delta25Unavailable(r)
    \/ ArbStatsUnavailable(r) \/ TurnoverUnavailable(r) \/ AverageUnavailable(r)
    \/ MoveUnavailable(r) \/ ThresholdUnavailable(r)

\* C1, as stated -- Sufficiency gate: in any run on an open market day, if a
\* required input is unavailable the result is INSUFFICIENT.
C1_GateAnyRun ==
    (run # None /\ ~ClosedDay(LastRun.today, LastRun.holiday) /\ SomeInputUnavailable(LastRun))
        => LastRun.outcome = "INSUFFICIENT"

\* C1, amended -- Sufficiency gate: in any run on an open market day with
\* both source URLs configured, if a required input is unavailable the
\* result is INSUFFICIENT (and so never NORMAL, CAUTION or WARNING); on an
\* open day no run with an unavailable input is given a risk level.
C1_SufficiencyGate ==
    (run # None /\ ~ClosedDay(LastRun.today, LastRun.holiday) /\ SomeInputUnavailable(LastRun))
        => /\ ~Sufficient(LastRun)
           /\ (LastRun.src_a /\ LastRun.src_b) => LastRun.outcome = "INSUFFICIENT"

\* C1 witness: an open, configured run in which only the percentile
\* statistics are unavailable, stopped by the gate.
C1_Witness ==
    /\ run # None
    /\ ~ClosedDay(LastRun.today, LastRun.holiday)
    /\ LastRun.src_a /\ LastRun.src_b
    /\ ArbStatsUnavailable(LastRun)
    /\ ~ArbUnavailable(LastRun) /\ ~Delta5Unavailable(LastRun) /\ ~Delta25Unavailable(LastRun)
    /\ ~TurnoverUnavailable(LastRun) /\ ~AverageUnavailable(LastRun)
    /\ ~MoveUnavailable(LastRun) /\ ~ThresholdUnavailable(LastRun)
    /\ LastRun.outcome = "INSUFFICIENT"

\* C3 -- Closed-market short-circuit: a run on a closed day ends skipped,
\* before any fetch and any load or write of the store; state.json is as it
\* was and the outcome is neither INSUFFICIENT nor a risk level.
C3_ClosedMarketSkip ==
    (run # None /\ ClosedDay(LastRun.today, LastRun.holiday))
        => /\ LastRun.outcome = "SKIPPED"
           /\ ~LastRun.fetched /\ ~LastRun.loaded /\ ~LastRun.saved
           /\ disk = LastRun.before

\* C3 witness: a run on a Saturday, sources configured, over a non-empty
\* state.json, was skipped.
C3_Witness ==
    /\ run # None
    /\ weekday(LastRun.today) = 5
    /\ ~LastRun.holiday /\ LastRun.src_a /\ LastRun.src_b
    /\ LastRun.outcome = "SKIPPED"
    /\ Len(disk) >= VOL_MA_DAYS

\* WEAK and STRONG, from the inputs of a sufficient run: WEAK is
\* delta5 >= -margin_5, STRONG is WEAK and delta25 >= -margin_25 and arbHigh.
ArbFacts(r) ==
    LET st == compute_arb_stats(r.inputs.arb.net_hist,
                                r.inputs.arb.buy[1] - r.inputs.arb.sell[1])[1]
        d5 == calc_delta(r.inputs.arb.net_hist, ARB_DELTA_MAIN)[1]
        d25 == calc_delta(r.inputs.arb.net_hist, ARB_DELTA_LONG)[1]
        weak == InMarginUnits(d5) >= -st.margin_5
    IN [weak |-> weak,
        strong |-> weak /\ InMarginUnits(d25) >= -st.margin_25 /\ st.arb_high]

\* The two disjuncts of the WARNING rule (f: the run's ArbFacts).
WarningA(r, f) == f.strong /\ r.flags.liq /\ (r.flags.idx_high \/ r.flags.stress_down)
WarningB(r, f) == f.weak /\ r.flags.liq /\ r.flags.emergency

\* C4 -- WARNING rule: in a sufficient evaluation, if (STRONG and liquidity
\* mismatch and (index high zone or basis stress-down)) or (WEAK and
\* liquidity mismatch and emergency move) holds the result is WARNING, and
\* the result is WARNING only if one of the two holds or the boost rule
\* upgraded a CAUTION.
C4_WarningRule ==
    (run # None /\ Sufficient(LastRun))
        => LET f == ArbFacts(LastRun)
           IN /\ (WarningA(LastRun, f) \/ WarningB(LastRun, f)) => LastRun.outcome = "WARNING"
              /\ LastRun.outcome = "WARNING"
                   => (WarningA(LastRun, f) \/ WarningB(LastRun, f) \/ LastRun.flags.sq_boosted)

\* C4 witness: WARNING by the shock disjunct alone (WEAK, not STRONG).
C4_Witness ==
    /\ run # None
    /\ Sufficient(LastRun)
    /\ LET f == ArbFacts(LastRun)
       IN WarningB(LastRun, f) /\ ~WarningA(LastRun, f) /\ ~f.strong
    /\ ~LastRun.flags.sq_boosted
    /\ LastRun.outcome = "WARNING"

\* The settlement day is at most 5 calendar days after the evaluation date
\* (the date main() reports the evaluation for).
SettlementNear(r) == toordinal(sq_of(r.report_dt)) - toordinal(r.report_dt) <= SQ_NEAR_DAYS

\* The settlement day's month is a major settlement month.
SettlementMajor(r) == sq_of(r.report_dt).month \in {3, 6, 9, 12}

\* The CAUTION condition as the rule states it (f: the run's ArbFacts).
CautionCondition(r, f) ==
    /\ ~(WarningA(r, f) \/ WarningB(r, f))
    /\ f.weak \/ f.strong
    /\ r.flags.liq
    /\ SettlementNear(r) \/ r.flags.idx_high \/ r.flags.stress_down \/ r.flags.emergency

\* C5 -- CAUTION rule: in a sufficient evaluation in which the WARNING rule
\* does not hold, the CAUTION condition the code evaluates holds exactly when
\* (WEAK or STRONG) and liquidity mismatch and (settlement near, in any
\* month, or index high zone or basis stress-down or emergency move), and
\* such an evaluation is not NORMAL.
C5_CautionRule ==
    (run # None /\ Sufficient(LastRun))
        => LET f == ArbFacts(LastRun)
           IN ~(WarningA(LastRun, f) \/ WarningB(LastRun, f))
                => /\ LastRun.flags.caution <=> CautionCondition(LastRun, f)
                   /\ CautionCondition(LastRun, f) => LastRun.outcome # "NORMAL"

\* C6 -- Boost rule: in a sufficient evaluation in which the CAUTION
\* condition holds, if the settlement day is at most 5 days away and its
\* month is a major settlement month the result is WARNING; a result of
\* CAUTION never occurs while the settlement day is near and major.
C6_BoostRule ==
    (run # None /\ Sufficient(LastRun))
        => /\ (SettlementNear(LastRun) /\ SettlementMajor(LastRun)
                 /\ CautionCondition(LastRun, ArbFacts(LastRun)))
                => LastRun.outcome = "WARNING"
           /\ LastRun.outcome = "CAUTION"
                => ~(SettlementNear(LastRun) /\ SettlementMajor(LastRun))

\* C6 witness: the settlement day is the only trigger, near and major, and
\* the CAUTION was upgraded.
C6_Witness ==
    /\ run # None
    /\ Sufficient(LastRun)
    /\ SettlementNear(LastRun) /\ SettlementMajor(LastRun)
    /\ ~LastRun.flags.idx_high /\ ~LastRun.flags.stress_down /\ ~LastRun.flags.emergency
    /\ CautionCondition(LastRun, ArbFacts(LastRun))
    /\ LastRun.flags.sq_boosted
    /\ LastRun.outcome = "WARNING"

\* The records of the store that precede today's observation (r: a run in
\* which a turnover was fetched).
Preceding(r) ==
    SelectSeq(r.before, LAMBDA x : x.date # isoformat(r.inputs.volf.date[1]))

\* C7 -- Moving-average ratio: the moving average a sufficient run divides
\* today's turnover by is the mean of the VOL_MA_DAYS most recent qualifying
\* turnover values that precede today's observation (today's point excluded);
\* over VOL_MA_DAYS values V with today's value 2V the ratio is 2.
C7_MovingAverageExcludesToday ==
    (run # None /\ Sufficient(LastRun))
        => /\ LastRun.vol_ma = get_volume_ma(Preceding(LastRun), VOL_MA_DAYS)
           /\ (LastRun.before = SeedStore /\ LastRun.inputs.volf.vol = Some(200))
                => LastRun.inputs.volf.vol[1] * LastRun.vol_ma[1].n = 2 * LastRun.vol_ma[1].sum

(***************************************************************************)
(* Properties of the store (specification SpecStore).                      *)
(***************************************************************************)
LastCall == call[1]

\* The indices of the records of s dated ds.
Dated(s, ds) == {i \in 1..Len(s) : s[i].date = ds}

\* C2 -- Idempotent upsert: after any call update_volume_history(state, dt,
\* vol), a second call with the same (dt, vol) leaves the store content as
\* the first call left it and returns changed = false.
C2_IdempotentUpsert ==
    call # NoCall =>
        LET again == update_volume_history(history, LastCall.dt, LastCall.vol)
        IN /\ again.history = history
           /\ again.changed = FALSE

\* C8 -- Merge, not overwrite: a call for a date that already has a record
\* adds no record, sets only prime_volume of that record, and leaves its
\* other fields and every other record as they were.
C8_MergeNotOverwrite ==
    (call # NoCall /\ Dated(LastCall.before, isoformat(LastCall.dt)) # {}) =>
        LET before == LastCall.before
            ds == isoformat(LastCall.dt)
        IN /\ Len(history) = Len(before)
           /\ Cardinality(Dated(history, ds)) = Cardinality(Dated(before, ds))
           /\ \A i \in 1..Len(before) :
                /\ history[i].date = before[i].date
                /\ history[i].arb_net = before[i].arb_net
                /\ before[i].date # ds => history[i] = before[i]
                /\ before[i].date = ds => history[i].prime_volume = Some(LastCall.vol)

\* C8 witness: a record holding another field and no volume (or another
\* volume) has been upserted with a volume for its date.
C8_Witness ==
    /\ call # NoCall
    /\ LastCall.changed
    /\ \E i \in Dated(LastCall.before, isoformat(LastCall.dt)) :
          /\ LastCall.before[i].arb_net # None
          /\ history[i].arb_net = LastCall.before[i].arb_net
          /\ history[i].prime_volume = Some(LastCall.vol)
    /\ Len(LastCall.before) >= 2

\* C9 -- Changed flag is exact: update_volume_history returns true if and
\* only if the store content after the call differs from the content before.
C9_ChangedExact ==
    call # NoCall => (LastCall.changed <=> (history # LastCall.before))

\* C10 -- Unique date key: the history holds at most one record per date.
C10_UniqueDate ==
    \A i, j \in 1..Len(history) : history[i].date = history[j].date => i = j

\* C10 witness: a date already stored has been upserted again with another
\* volume, in a store of several records.
C10_Witness ==
    /\ call # NoCall
    /\ Dated(LastCall.before, isoformat(LastCall.dt)) # {}
    /\ LastCall.changed
    /\ Len(history) >= 3

\* The records of a list, as a set.
Records(s) == {s[i] : i \in 1..Len(s)}

\* Date a is on or after date b, on the ordinals of the calendar dates.
OnOrAfter(a, b) ==
    toordinal(Date(a[1], a[2], a[3])) >= toordinal(Date(b[1], b[2], b[3]))

\* C11 -- Retention trim: the history is sorted by date ascending and holds
\* at most STATE_MAX_RECORDS records, and when an append pushes it past the
\* cap exactly the oldest-dated excess records are discarded: the records
\* kept are STATE_MAX_RECORDS of the records before the call and the new
\* one, and every record kept is dated on or after every record discarded.
C11_RetentionTrim ==
    /\ Len(history) <= STATE_MAX_RECORDS
    /\ \A i, j \in 1..Len(history) : i < j => OnOrAfter(history[j].date, history[i].date)
    /\ (call # NoCall /\ Dated(LastCall.before, isoformat(LastCall.dt)) = {})
         => LET all == Records(LastCall.before)
                         \cup {Rec(isoformat(LastCall.dt), Some(LastCall.vol), None)}
                kept == Records(history)
            IN /\ kept \subseteq all
               /\ Cardinality(kept) = IF Cardinality(all) > STATE_MAX_RECORDS
                                      THEN STATE_MAX_RECORDS ELSE Cardinality(all)
               /\ \A k \in kept, d \in all \ kept : OnOrAfter(k.date, d.date)

\* C11 witness: an append to a full store, dated between its records, has
\* pushed the oldest record out and kept the new one.
C11_Witness ==
    /\ call # NoCall
    /\ Len(LastCall.before) = STATE_MAX_RECORDS
    /\ Dated(LastCall.before, isoformat(LastCall.dt)) = {}
    /\ Dated(history, isoformat(LastCall.dt)) # {}
    /\ Dated(history, LastCall.before[1].date) = {}
    /\ Len(history) = STATE_MAX_RECORDS
    /\ OnOrAfter(history[Len(history)].date, isoformat(LastCall.dt))
    /\ history[Len(history)].date # isoformat(LastCall.dt)

\* ---------------------------------------------------------------------
\* The pure helpers, called on their own: compute_basis_stuck_nk on the
\* series the two fetches can return, and get_days_to_sq with
\* is_major_sq_month on the days of a calendar range.
\* ---------------------------------------------------------------------

\* The largest |futures - spot| of the series drawn.
MaxBasis == 5

\* Futures and spot series of n sessions whose basis is bt on the last
\* session and b5 BASIS_SHRINK_WINDOW sessions before it, 0 elsewhere.
PairSeries(n, bt, b5) ==
    [fut |-> Some([i \in 1..n |-> 100 + (IF i = n THEN bt
                                         ELSE IF i = n - BASIS_SHRINK_WINDOW THEN b5
                                         ELSE 0)]),
     spot |-> Some([i \in 1..n |-> 100])]

\* What the two fetch_yf_series calls can return: a failure, or series of
\* BASIS_SHRINK_WINDOW to BASIS_SHRINK_WINDOW + 2 common sessions.
BasisPairs ==
    {[fut |-> None, spot |-> None]}
    \cup {PairSeries(n, bt, b5) :
            n \in BASIS_SHRINK_WINDOW..(BASIS_SHRINK_WINDOW + 2),
            bt \in (-MaxBasis)..MaxBasis, b5 \in (-MaxBasis)..MaxBasis}

\* The days get_days_to_sq and is_major_sq_month are called on: NumCalDays
\* consecutive days from FirstCalDate (a leap year, through the December
\* to January step).
NumCalDays == 400
FirstCalDate == Date(2024, 1, 1)
CalDates == {date_add(FirstCalDate, k) : k \in 0..(NumCalDays - 1)}

InitPure ==
    /\ calc = None
    /\ disk = <<>>
    /\ pc = "idle"
    /\ run = None
    /\ history = <<>>
    /\ call = NoCall

\* One call of compute_basis_stuck_nk.
CalcBasis ==
    /\ \E s \in BasisPairs :
         calc' = Some([fn |-> "compute_basis_stuck_nk", fut |-> s.fut, spot |-> s.spot,
                       info |-> compute_basis_stuck_nk(s.fut, s.spot)])
    /\ UNCHANGED <<disk, pc, run, history, call>>

\* One call of get_days_to_sq and of is_major_sq_month on the same day.
CalcSq ==
    /\ \E d \in CalDates :
         calc' = Some([fn |-> "get_days_to_sq", d |-> d,
                       days_to_sq |-> get_days_to_sq(d),
                       major |-> is_major_sq_month(d)])
    /\ UNCHANGED <<disk, pc, run, history, call>>

NextPure == CalcBasis \/ CalcSq

SpecPure == InitPure /\ [][NextPure]_vars

LastCalc == calc[1]

\* C12 -- Basis stress-down is a strengthening of stuck: whenever
\* compute_basis_stuck_nk reports basis_stress_down, it also reports stuck,
\* |basis_today| >= |basis_5ago|, and basis_today is negative.
C12_StressDownStrengthensStuck ==
    (/\ calc # None
     /\ LastCalc.fn = "compute_basis_stuck_nk"
     /\ LastCalc.info.ok
     /\ LastCalc.info.basis_stress_down)
        => LET n == Len(LastCalc.fut[1])
               today == LastCalc.fut[1][n] - LastCalc.spot[1][n]
               ago == LastCalc.fut[1][n - BASIS_SHRINK_WINDOW]
                        - LastCalc.spot[1][n - BASIS_SHRINK_WINDOW]
           IN /\ LastCalc.info.stuck
              /\ Abs(today) >= Abs(ago)
              /\ today < 0

\* C13 -- Major settlement month refers to the settlement day: for every day
\* d, is_major_sq_month(d) is true if and only if the month of the
\* settlement day get_days_to_sq(d) counts to (the second Friday of d's
\* month if not yet passed, else that of the following month) is in
\* {3, 6, 9, 12}.
C13_MajorMonthOfSettlementDay ==
    (calc # None /\ LastCalc.fn = "get_days_to_sq")
        => LET settlement == date_add(LastCalc.d, LastCalc.days_to_sq)
           IN LastCalc.major <=> (settlement.month \in {3, 6, 9, 12})

====
